---- MODULE Spec2Model ----
(***************************************************************************)
(* A model of the semantic core of the polarity language: the evaluator    *)
(* (lang/elaborator/src/normalizer/eval.rs), the declaration table         *)
(* (lang/syntax/src/trees/ast/generic/lookup.rs) and the edit generation   *)
(* of xfunctionalization (lang/query/src/xfunc.rs), with the pivot of the  *)
(* program matrix it calls, and the run command of the test runner         *)
(* (test/test-runner/src/cli/run.rs).                                      *)
(*                                                                         *)
(* eval is a recursive function of (term, program, environment).  It is    *)
(* modelled by the recursive operator Eval, which threads the caller's     *)
(* environment (the `&mut Env` of the source) and a ghost log of the       *)
(* steps it performs, and returns one of four outcomes:                    *)
(*   "Ok"      Ok(value)                                                   *)
(*   "Err"     Err(TypeError)                                              *)
(*   "Panic"   a Rust panic (unwrap on None, unreachable!(), index out of  *)
(*             bounds): eval does not return                               *)
(*   "Diverge" the recursion is deeper than Fuel: eval has not returned    *)
(***************************************************************************)
EXTENDS Integers, Sequences, FiniteSets, TLC

\* Bound on the nesting of eval calls followed by the model.
Fuel == 9

\* Bound on byte offsets of the source module handed to xfunc.
MaxOffset == 6

\* Bound on the number of declarations lifting reports as modified.
MaxDirty == 2

\* Bound on the number of times the edits of xfunc are applied to a module.
MaxRounds == 2

-----------------------------------------------------------------------------
(* Results *)

None == [tag |-> "None"]

NoErr == [kind |-> "NoErr", name |-> "", expected |-> <<>>, actual |-> ""]

Event(ev, tag, name, n, k) == [ev |-> ev, tag |-> tag, name |-> name, n |-> n, k |-> k]

Ok(v, env, log) == [st |-> "Ok", val |-> v, err |-> NoErr, env |-> env, log |-> log]

Err(e, env, log) == [st |-> "Err", val |-> None, err |-> e, env |-> env, log |-> log]

Panic(env, log) == [st |-> "Panic", val |-> None, err |-> NoErr, env |-> env, log |-> log]

Diverge(env, log) == [st |-> "Diverge", val |-> None, err |-> NoErr, env |-> env, log |-> log]

Returned(r) == r.st \in {"Ok", "Err"}

Impossible == [kind |-> "Impossible", name |-> "", expected |-> <<>>, actual |-> ""]

UndefinedDeclaration(name) ==
    [kind |-> "UndefinedDeclaration", name |-> name, expected |-> <<>>, actual |-> ""]

InvalidDeclarationKind(name, expected, actual) ==
    [kind |-> "InvalidDeclarationKind", name |-> name, expected |-> expected, actual |-> actual]

MissingTypeDeclaration(name) ==
    [kind |-> "MissingTypeDeclaration", name |-> name, expected |-> <<>>, actual |-> ""]

LOk(d) == [st |-> "Ok", val |-> d, err |-> NoErr]

LErr(e) == [st |-> "Err", val |-> None, err |-> e]

-----------------------------------------------------------------------------
(* Terms, values and declarations *)

Variable(idx, name) == [tag |-> "Variable", idx |-> idx, name |-> name]

TypCtor(name, args) == [tag |-> "TypCtor", name |-> name, args |-> args]

Call(name, kind, args) == [tag |-> "Call", name |-> name, kind |-> kind, args |-> args]

DotCall(exp, name, args) == [tag |-> "DotCall", exp |-> exp, name |-> name, args |-> args]

Anno(exp, typ0) == [tag |-> "Anno", exp |-> exp, typ |-> typ0]

TypeUniv == [tag |-> "TypeUniv"]

LocalMatch(name, on_exp, body) ==
    [tag |-> "LocalMatch", name |-> name, on_exp |-> on_exp, body |-> body]

LocalComatch(name, is_lambda_sugar, body) ==
    [tag |-> "LocalComatch", name |-> name, is_lambda_sugar |-> is_lambda_sugar, body |-> body]

Hole == [tag |-> "Hole"]

\* A match or comatch body; params is params.len(), body is an expression or None.
Match(cases) == [cases |-> cases]

Case(name, params, body) == [name |-> name, params |-> params, body |-> body]

ValTypCtor(name, args) == [tag |-> "TypCtor", name |-> name, args |-> args]

ValCtor(kind, name, args) == [tag |-> "Ctor", kind |-> kind, name |-> name, args |-> args]

ValComatch(name, is_lambda_sugar, body) ==
    [tag |-> "Comatch", name |-> name, is_lambda_sugar |-> is_lambda_sugar, body |-> body]

ValTypeUniv == [tag |-> "TypeUniv"]

ValNeu(exp) == [tag |-> "Neu", exp |-> exp]

NeuVar(name, idx) == [tag |-> "Var", name |-> name, idx |-> idx]

NeuDtor(exp, name, args) == [tag |-> "Dtor", exp |-> exp, name |-> name, args |-> args]

NeuMatch(name, on_exp, body) == [tag |-> "Match", name |-> name, on_exp |-> on_exp, body |-> body]

NeuHole == [tag |-> "Hole"]

Closure(body, n_args, env) == [body |-> body, n_args |-> n_args, env |-> env]

Decl(kind, name, params, body) == [kind |-> kind, name |-> name, params |-> params, body |-> body]

-----------------------------------------------------------------------------
(* The declaration table: Decls { map, lookup_table } *)

decl(decls, name) ==
    IF name \in DOMAIN decls.map
    THEN LOk(decls.map[name])
    ELSE LErr(UndefinedDeclaration(name))

Accessor(decls, name, expected, accept) ==
    LET r == decl(decls, name)
    IN IF r.st = "Err" THEN r
       ELSE IF r.val.kind \in accept THEN r
       ELSE LErr(InvalidDeclarationKind(name, expected, r.val.kind))

typ(decls, name) == Accessor(decls, name, <<"Data", "Codata">>, {"Data", "Codata"})

\* A data that hands on whatever is declared under the name.
data_unchecked(decls, name) == decl(decls, name)

data(decls, name) == Accessor(decls, name, <<"Data">>, {"Data"})

codata(decls, name) == Accessor(decls, name, <<"Codata">>, {"Codata"})

def(decls, name) == Accessor(decls, name, <<"Def">>, {"Def"})

codef(decls, name) == Accessor(decls, name, <<"Codef">>, {"Codef"})

ctor(decls, name) == Accessor(decls, name, <<"Ctor">>, {"Ctor"})

dtor(decls, name) == Accessor(decls, name, <<"Dtor">>, {"Dtor"})

\* Codef::to_ctor and Def::to_dtor: the declaration seen as an xtor of its
\* type, with its name and parameters and without its body
to_ctor(d) == Decl("Ctor", d.name, d.params, None)

to_dtor(d) == Decl("Dtor", d.name, d.params, None)

ctor_or_codef(decls, name) ==
    LET r == Accessor(decls, name, <<"Ctor", "Codef">>, {"Ctor", "Codef"})
    IN IF r.st = "Ok" /\ r.val.kind = "Codef" THEN LOk(to_ctor(r.val)) ELSE r

dtor_or_def(decls, name) ==
    LET r == Accessor(decls, name, <<"Dtor", "Def">>, {"Dtor", "Def"})
    IN IF r.st = "Ok" /\ r.val.kind = "Def" THEN LOk(to_dtor(r.val)) ELSE r

type_decl_for_xtor(decls, name) ==
    IF name \in DOMAIN decls.xtor_to_type THEN decls.xtor_to_type[name] ELSE None

type_decl_for_xdef(decls, name) ==
    IF name \in DOMAIN decls.xdef_to_type THEN decls.xdef_to_type[name] ELSE None

\* A type_decl_for_member that consults the xdef index first.
type_decl_for_member_xdef_first(decls, name) ==
    LET x == type_decl_for_xdef(decls, name)
        t == IF x # None THEN x ELSE type_decl_for_xtor(decls, name)
    IN IF t = None THEN LErr(MissingTypeDeclaration(name)) ELSE typ(decls, t.name)

type_decl_for_member(decls, name) ==
    LET x == type_decl_for_xtor(decls, name)
        t == IF x # None THEN x ELSE type_decl_for_xdef(decls, name)
    IN IF t = None THEN LErr(MissingTypeDeclaration(name)) ELSE typ(decls, t.name)

-----------------------------------------------------------------------------
(* The environment: a stack of values, innermost binding last *)

empty == <<>>

InScope(env, idx) == idx < Len(env)

lookup(env, idx) == env[Len(env) - idx]

\* bind_iter pushes the values, runs the scoped computation and pops the
\* values again before handing on what it returned (a value or an error).
\* When the computation panics the pop is never reached.
\* bind_iter_env and bind_iter_log are what the scoped computation starts from;
\* bind_iter takes its result r.
bind_iter_env(env, args) == env \o args

bind_iter_log(env, log, args) == Append(log, Event("bind", "", "", Len(env), Len(args)))

bind_iter(env, args, r) ==
    IF Returned(r)
    THEN [r EXCEPT !.env = SubSeq(r.env, 1, Len(r.env) - Len(args)),
                   !.log = Append(r.log, Event("unbind", "", "", Len(env), Len(args)))]
    ELSE r

-----------------------------------------------------------------------------
(* The evaluator *)

RECURSIVE Eval(_, _, _, _, _)
RECURSIVE EvalVecFrom(_, _, _, _, _, _, _)
RECURSIVE apply(_, _, _, _, _)

NameOf(exp) == IF "name" \in DOMAIN exp THEN exp.name ELSE ""

Min(S) == CHOOSE i \in S : \A j \in S : i <= j

\* impl<T: Eval> Eval for Vec<T>: left to right, stopping at the first failure.
EvalVecFrom(xs, i, acc, prg, env, log, fuel) ==
    IF i > Len(xs) THEN Ok(acc, env, log)
    ELSE LET r == Eval(xs[i], prg, env, log, fuel)
         IN IF r.st # "Ok" THEN r
            ELSE EvalVecFrom(xs, i + 1, Append(acc, r.val), prg, r.env, r.log, fuel)

EvalVec(xs, prg, env, log, fuel) == EvalVecFrom(xs, 1, <<>>, prg, env, log, fuel)

EvalArgs(args, prg, env, log, fuel) == EvalVec(args, prg, env, log, fuel)

\* A case whose closure does not keep the environment it was built in.
EvalCase_late(case, env) ==
    [name |-> case.name,
     params |-> case.params,
     body |-> IF case.body = None THEN None ELSE Closure(case.body, case.params, empty)]

EvalCase(case, env) ==
    [name |-> case.name,
     params |-> case.params,
     body |-> IF case.body = None THEN None ELSE Closure(case.body, case.params, env)]

EvalMatch(m, prg, env, log, fuel) ==
    Ok([cases |-> [i \in 1..Len(m.cases) |-> EvalCase(m.cases[i], env)]], env, log)

\* A closure application that releases its bindings only when the body succeeds.
apply_leak(cl, prg, args, log, fuel) ==
    LET l1 == Append(Append(log, Event("apply", "", "", cl.n_args, Len(args))),
                     Event("bind", "", "", Len(cl.env), Len(args)))
        r == Eval(cl.body, prg, cl.env \o args, l1, fuel)
    IN IF r.st = "Ok"
       THEN [r EXCEPT !.env = cl.env,
                      !.log = Append(r.log, Event("unbind", "", "", Len(cl.env), Len(args)))]
       ELSE r

apply(cl, prg, args, log, fuel) ==
    LET l1 == Append(log, Event("apply", "", "", cl.n_args, Len(args)))
    IN bind_iter(cl.env, args,
                 Eval(cl.body, prg, bind_iter_env(cl.env, args),
                      bind_iter_log(cl.env, l1, args), fuel))

\* What `find` and the two `unwrap`s meet: no case of that name, an absurd
\* case, or a case with a body.
Selected(body, name) ==
    LET found == {i \in 1..Len(body.cases) : body.cases[i].name = name}
    IN IF found = {} THEN "missing"
       ELSE IF body.cases[Min(found)].body = None THEN "absurd" ELSE "found"

\* A beta_match that takes the first case whatever its name.
beta_match_first(prg, body, ctor_name, args, log, fuel) ==
    LET l1 == Append(log, Event("beta_match", Selected(body, ctor_name), ctor_name, Len(args), 0))
    IN IF Len(body.cases) = 0 THEN Panic(empty, l1)
       ELSE IF body.cases[1].body = None THEN Panic(empty, l1)
       ELSE apply(body.cases[1].body, prg, args, l1, fuel)

\* A beta_match that takes the last case of that name.
beta_match_last(prg, body, ctor_name, args, log, fuel) ==
    LET found == {i \in 1..Len(body.cases) : body.cases[i].name = ctor_name}
        l1 == Append(log, Event("beta_match", Selected(body, ctor_name), ctor_name, Len(args), 0))
    IN IF found = {} THEN Panic(empty, l1)
       ELSE LET case == body.cases[CHOOSE i \in found : \A j \in found : j <= i]
            IN IF case.body = None THEN Panic(empty, l1)
               ELSE apply(case.body, prg, args, l1, fuel)

beta_match(prg, body, ctor_name, args, log, fuel) ==
    LET found == {i \in 1..Len(body.cases) : body.cases[i].name = ctor_name}
        l1 == Append(log, Event("beta_match", Selected(body, ctor_name), ctor_name, Len(args), 0))
    IN IF found = {} THEN Panic(empty, l1)
       ELSE LET case == body.cases[Min(found)]
            IN IF case.body = None THEN Panic(empty, l1)
               ELSE apply(case.body, prg, args, l1, fuel)

beta_comatch(prg, body, dtor_name, args, log, fuel) ==
    LET found == {i \in 1..Len(body.cases) : body.cases[i].name = dtor_name}
        l1 == Append(log, Event("beta_comatch", Selected(body, dtor_name), dtor_name, Len(args), 0))
    IN IF found = {} THEN Panic(empty, l1)
       ELSE LET cocase == body.cases[Min(found)]
            IN IF cocase.body = None THEN Panic(empty, l1)
               ELSE apply(cocase.body, prg, args, l1, fuel)

\* The caller's environment is not handed to beta_match, beta_comatch or to
\* the scoped evaluation under Env::empty(): it is what it was before.
Back(r, env) == [r EXCEPT !.env = env]

\* A Variable that takes the value out of the environment instead of cloning it.
EvalVariable_take(e, prg, env, log, fuel) ==
    IF InScope(env, e.idx)
    THEN Ok(lookup(env, e.idx),
            SubSeq(env, 1, Len(env) - e.idx - 1) \o SubSeq(env, Len(env) - e.idx + 1, Len(env)), log)
    ELSE Panic(env, log)

EvalVariable(e, prg, env, log, fuel) ==
    IF InScope(env, e.idx) THEN Ok(lookup(env, e.idx), env, log) ELSE Panic(env, log)

EvalTypCtor(e, prg, env, log, fuel) ==
    LET a == EvalArgs(e.args, prg, env, log, fuel)
    IN IF a.st # "Ok" THEN a ELSE Ok(ValTypCtor(e.name, a.val), a.env, a.log)

\* A Call that runs a codef or def at once: it reads the declaration and
\* hands on its body evaluated under the arguments.
EvalCall_lookup(e, prg, env, log, fuel) ==
    LET a == EvalArgs(e.args, prg, env, log, fuel)
    IN IF a.st # "Ok" THEN a
       ELSE IF e.kind = "Ctor" THEN Ok(ValCtor(e.kind, e.name, a.val), a.env, a.log)
       ELSE LET d == IF e.kind = "Codef" THEN codef(prg.decls, e.name) ELSE def(prg.decls, e.name)
            IN IF d.st = "Err" THEN Err(d.err, a.env, a.log)
               ELSE LET body == bind_iter(empty, a.val,
                                   EvalMatch(d.val.body, prg, bind_iter_env(empty, a.val),
                                             bind_iter_log(empty, a.log, a.val), fuel))
                    IN Ok(ValComatch(e.name, FALSE, body.val), a.env, body.log)

EvalCall(e, prg, env, log, fuel) ==
    LET a == EvalArgs(e.args, prg, env, log, fuel)
    IN IF a.st # "Ok" THEN a ELSE Ok(ValCtor(e.kind, e.name, a.val), a.env, a.log)

\* A data branch that hands the dot-call arguments, not the constructor's, to beta_match.
DotCallData_wrongargs(e, prg, x, a, fuel) ==
    LET d == def(prg.decls, e.name)
    IN IF d.st = "Err" THEN Err(d.err, a.env, a.log)
       ELSE LET body == bind_iter(empty, a.val,
                           EvalMatch(d.val.body, prg, bind_iter_env(empty, a.val),
                                     bind_iter_log(empty, a.log, a.val), fuel))
            IN IF body.st # "Ok" THEN Back(body, a.env)
               ELSE Back(beta_match(prg, body.val, x.val.name, a.val, body.log, fuel), a.env)

\* DotCall on a constructor of a data type: e.name is a top-level def.
\* x is the evaluated receiver, a the evaluated arguments.
DotCallData(e, prg, x, a, fuel) ==
    LET d == def(prg.decls, e.name)
    IN IF d.st = "Err" THEN Err(d.err, a.env, a.log)
       ELSE LET body == bind_iter(empty, a.val,
                           EvalMatch(d.val.body, prg, bind_iter_env(empty, a.val),
                                     bind_iter_log(empty, a.log, a.val), fuel))
            IN IF body.st # "Ok" THEN Back(body, a.env)
               ELSE Back(beta_match(prg, body.val, x.val.name, x.val.args, body.log, fuel), a.env)

\* A codata branch that confuses the two argument lists.
DotCallCodata_swapped(e, prg, x, a, fuel) ==
    LET c == codef(prg.decls, x.val.name)
    IN IF c.st = "Err" THEN Err(c.err, a.env, a.log)
       ELSE LET body == bind_iter(empty, a.val,
                           EvalMatch(c.val.body, prg, bind_iter_env(empty, a.val),
                                     bind_iter_log(empty, a.log, a.val), fuel))
            IN IF body.st # "Ok" THEN Back(body, a.env)
               ELSE Back(beta_comatch(prg, body.val, e.name, x.val.args, body.log, fuel), a.env)

\* DotCall on a constructor-shaped value whose name is a codef.
DotCallCodata(e, prg, x, a, fuel) ==
    LET c == codef(prg.decls, x.val.name)
    IN IF c.st = "Err" THEN Err(c.err, a.env, a.log)
       ELSE LET body == bind_iter(empty, x.val.args,
                           EvalMatch(c.val.body, prg, bind_iter_env(empty, x.val.args),
                                     bind_iter_log(empty, a.log, x.val.args), fuel))
            IN IF body.st # "Ok" THEN Back(body, a.env)
               ELSE Back(beta_comatch(prg, body.val, e.name, a.val, body.log, fuel), a.env)

\* A DotCall that evaluates its arguments before its receiver.
EvalDotCall_argsfirst(e, prg, env, log, fuel) ==
    LET a0 == EvalArgs(e.args, prg, env, log, fuel)
    IN IF a0.st # "Ok" THEN a0
       ELSE LET x == Eval(e.exp, prg, a0.env, a0.log, fuel)
       IN IF x.st # "Ok" THEN x
          ELSE LET a == [a0 EXCEPT !.env = x.env, !.log = x.log]
          IN CASE x.val.tag = "Ctor" ->
                    LET type_decl == type_decl_for_member(prg.decls, x.val.name)
                    IN IF type_decl.st = "Err" THEN Err(type_decl.err, a.env, a.log)
                       ELSE IF type_decl.val.kind = "Data"
                       THEN DotCallData(e, prg, x, a, fuel)
                       ELSE DotCallCodata(e, prg, x, a, fuel)
               [] x.val.tag = "Comatch" ->
                    Back(beta_comatch(prg, x.val.body, e.name, a.val, a.log, fuel), a.env)
               [] x.val.tag = "Neu" ->
                    Ok(ValNeu(NeuDtor(x.val.exp, e.name, a.val)), a.env, a.log)
               [] OTHER -> Panic(a.env, a.log)

EvalDotCall(e, prg, env, log, fuel) ==
    LET x == Eval(e.exp, prg, env, log, fuel)
    IN IF x.st # "Ok" THEN x
       ELSE LET a == EvalArgs(e.args, prg, x.env, x.log, fuel)
       IN IF a.st # "Ok" THEN a
          ELSE CASE x.val.tag = "Ctor" ->
                    LET type_decl == type_decl_for_member(prg.decls, x.val.name)
                    IN IF type_decl.st = "Err" THEN Err(type_decl.err, a.env, a.log)
                       ELSE IF type_decl.val.kind = "Data"
                       THEN DotCallData(e, prg, x, a, fuel)
                       ELSE DotCallCodata(e, prg, x, a, fuel)
               [] x.val.tag = "Comatch" ->
                    Back(beta_comatch(prg, x.val.body, e.name, a.val, a.log, fuel), a.env)
               [] x.val.tag = "Neu" ->
                    Ok(ValNeu(NeuDtor(x.val.exp, e.name, a.val)), a.env, a.log)
               [] OTHER -> Panic(a.env, a.log)

\* An Anno that evaluates its type before its expression.
EvalAnno_typed(e, prg, env, log, fuel) ==
    LET typ0 == Eval(e.typ, prg, env, log, fuel)
    IN IF typ0.st # "Ok" THEN typ0
       ELSE Eval(e.exp, prg, typ0.env, typ0.log, fuel)

EvalAnno(e, prg, env, log, fuel) == Eval(e.exp, prg, env, log, fuel)

EvalTypeUniv(e, prg, env, log, fuel) == Ok(ValTypeUniv, env, log)

\* A LocalMatch without the arm for a neutral scrutinee.
EvalLocalMatch_strict(e, prg, env, log, fuel) ==
    LET on_exp == Eval(e.on_exp, prg, env, log, fuel)
    IN IF on_exp.st # "Ok" THEN on_exp
       ELSE LET body == EvalMatch(e.body, prg, on_exp.env, on_exp.log, fuel)
       IN IF body.st # "Ok" THEN body
          ELSE CASE on_exp.val.tag = "Ctor" ->
                    Back(beta_match(prg, body.val, on_exp.val.name, on_exp.val.args,
                                    body.log, fuel), body.env)
               [] OTHER -> Panic(body.env, body.log)

EvalLocalMatch(e, prg, env, log, fuel) ==
    LET on_exp == Eval(e.on_exp, prg, env, log, fuel)
    IN IF on_exp.st # "Ok" THEN on_exp
       ELSE LET body == EvalMatch(e.body, prg, on_exp.env, on_exp.log, fuel)
       IN IF body.st # "Ok" THEN body
          ELSE CASE on_exp.val.tag = "Ctor" ->
                    Back(beta_match(prg, body.val, on_exp.val.name, on_exp.val.args,
                                    body.log, fuel), body.env)
               [] on_exp.val.tag = "Neu" ->
                    Ok(ValNeu(NeuMatch(e.name, on_exp.val.exp, body.val)), body.env, body.log)
               [] OTHER -> Panic(body.env, body.log)

EvalLocalComatch(e, prg, env, log, fuel) ==
    LET body == EvalMatch(e.body, prg, env, log, fuel)
    IN IF body.st # "Ok" THEN body
       ELSE Ok(ValComatch(e.name, e.is_lambda_sugar, body.val), body.env, body.log)

EvalHole(e, prg, env, log, fuel) == Ok(ValNeu(NeuHole), env, log)

\* impl Eval for Exp.  The log records the entry into every eval call and,
\* when the call returns, the depth of the environment at entry (n) and at
\* exit (k).
Eval(exp, prg, env, log, fuel) ==
    IF fuel = 0 THEN Diverge(env, log)
    ELSE LET l0 == Append(log, Event("enter", exp.tag, NameOf(exp), Len(env), 0))
             r == CASE exp.tag = "Variable" -> EvalVariable(exp, prg, env, l0, fuel - 1)
                    [] exp.tag = "TypCtor" -> EvalTypCtor(exp, prg, env, l0, fuel - 1)
                    [] exp.tag = "Call" -> EvalCall(exp, prg, env, l0, fuel - 1)
                    [] exp.tag = "DotCall" -> EvalDotCall(exp, prg, env, l0, fuel - 1)
                    [] exp.tag = "Anno" -> EvalAnno(exp, prg, env, l0, fuel - 1)
                    [] exp.tag = "TypeUniv" -> EvalTypeUniv(exp, prg, env, l0, fuel - 1)
                    [] exp.tag = "LocalMatch" -> EvalLocalMatch(exp, prg, env, l0, fuel - 1)
                    [] exp.tag = "LocalComatch" -> EvalLocalComatch(exp, prg, env, l0, fuel - 1)
                    [] exp.tag = "Hole" -> EvalHole(exp, prg, env, l0, fuel - 1)
         IN IF Returned(r)
            THEN [r EXCEPT !.log = Append(@, Event("ret", exp.tag, NameOf(exp), Len(env), Len(r.env)))]
            ELSE r

-----------------------------------------------------------------------------
(* Programs handed to eval *)

TypeDecl(name) == [name |-> name]

cTrue == Call("True", "Ctor", <<>>)

cFalse == Call("False", "Ctor", <<>>)

cZ == Call("Z", "Ctor", <<>>)

cS(n) == Call("S", "Ctor", <<n>>)

cPair == Call("Pair", "Codef", <<>>)

cConst(c) == Call("Const", "Codef", <<c>>)

vTrue == ValCtor("Ctor", "True", <<>>)

vFalse == ValCtor("Ctor", "False", <<>>)

vZ == ValCtor("Ctor", "Z", <<>>)

vS(n) == ValCtor("Ctor", "S", <<n>>)

\* def Bool.not { True => False, False => True }
NotStd == Match(<<Case("True", 0, cFalse), Case("False", 0, cTrue)>>)

\* the same cases in the other order
NotSwapped == Match(<<Case("False", 0, cTrue), Case("True", 0, cFalse)>>)

\* no case for False
NotMissing == Match(<<Case("True", 0, cFalse)>>)

\* the case for False is declared absurd
NotAbsurd == Match(<<Case("True", 0, cFalse), Case("False", 0, None)>>)

\* two cases named True
NotDuplicate == Match(<<Case("True", 0, cFalse), Case("True", 0, cTrue), Case("False", 0, cTrue)>>)

\* codef Pair { fst => 1, snd => 2 }
PairStd == Match(<<Case("fst", 0, cS(cZ)), Case("snd", 0, cS(cS(cZ)))>>)

PairMissing == Match(<<Case("fst", 0, cS(cZ))>>)

PairAbsurd == Match(<<Case("fst", 0, None), Case("snd", 0, cS(cS(cZ)))>>)

\* def Nat.pred { Z => Z, S(n) => n }
PredStd == Match(<<Case("Z", 0, cZ), Case("S", 1, Variable(0, "n"))>>)

\* the case for S binds no parameter
PredArity == Match(<<Case("Z", 0, cZ), Case("S", 0, cZ)>>)

\* def Bool.and(y) { True => y, False => False }
AndStd == Match(<<Case("True", 0, Variable(0, "y")), Case("False", 0, cFalse)>>)

\* def Nat.loop { Z => Z.loop, S(n) => n.loop }
LoopStd == Match(<<Case("Z", 0, DotCall(cZ, "loop", <<>>)),
                   Case("S", 1, DotCall(Variable(0, "n"), "loop", <<>>))>>)

\* codef Const(c) { ap(x) => c }
ConstStd == Match(<<Case("ap", 1, Variable(1, "c"))>>)

\* def Bool.bad { True => True, False => False.not }
BadStd == Match(<<Case("True", 0, cTrue), Case("False", 0, DotCall(cFalse, "not", <<>>))>>)

\* def Bool.bad { True => True.nope, False => Ghost.not }: both cases fail to look a name up
BadLookup == Match(<<Case("True", 0, DotCall(cTrue, "nope", <<>>)),
                  Case("False", 0, DotCall(Call("Ghost", "Ctor", <<>>), "not", <<>>))>>)

MkPrg(notBody, pairBody, predBody, badBody) ==
    [decls |->
      [map |->
            ("Bool" :> Decl("Data", "Bool", 0, None))
         @@ ("True" :> Decl("Ctor", "True", 0, None))
         @@ ("False" :> Decl("Ctor", "False", 0, None))
         @@ ("Nat" :> Decl("Data", "Nat", 0, None))
         @@ ("Z" :> Decl("Ctor", "Z", 0, None))
         @@ ("S" :> Decl("Ctor", "S", 1, None))
         @@ ("not" :> Decl("Def", "not", 0, notBody))
         @@ ("and" :> Decl("Def", "and", 1, AndStd))
         @@ ("pred" :> Decl("Def", "pred", 0, predBody))
         @@ ("loop" :> Decl("Def", "loop", 0, LoopStd))
         @@ ("bad" :> Decl("Def", "bad", 0, badBody))
         @@ ("PairT" :> Decl("Codata", "PairT", 0, None))
         @@ ("fst" :> Decl("Dtor", "fst", 0, None))
         @@ ("snd" :> Decl("Dtor", "snd", 0, None))
         @@ ("Pair" :> Decl("Codef", "Pair", 0, pairBody))
         @@ ("Fun" :> Decl("Codata", "Fun", 0, None))
         @@ ("ap" :> Decl("Dtor", "ap", 1, None))
         @@ ("Const" :> Decl("Codef", "Const", 1, ConstStd)),
       xtor_to_type |->
            ("True" :> TypeDecl("Bool")) @@ ("False" :> TypeDecl("Bool"))
         @@ ("Z" :> TypeDecl("Nat")) @@ ("S" :> TypeDecl("Nat"))
         @@ ("fst" :> TypeDecl("PairT")) @@ ("snd" :> TypeDecl("PairT"))
         @@ ("ap" :> TypeDecl("Fun")),
       xdef_to_type |->
            ("not" :> TypeDecl("Bool")) @@ ("and" :> TypeDecl("Bool"))
         @@ ("bad" :> TypeDecl("Bool"))
         @@ ("pred" :> TypeDecl("Nat")) @@ ("loop" :> TypeDecl("Nat"))
         @@ ("Pair" :> TypeDecl("PairT")) @@ ("Const" :> TypeDecl("Fun"))]]

PrgStd == MkPrg(NotStd, PairStd, PredStd, BadStd)

PrgBadLookup == MkPrg(NotStd, PairStd, PredStd, BadLookup)

\* Programs the type checker accepts
CheckedPrgs == {PrgStd, MkPrg(NotSwapped, PairStd, PredStd, BadStd)}

\* Programs that violate what the type checker establishes (coverage,
\* absurdity, duplicate cases, arity)
UncheckedPrgs ==
    {MkPrg(NotMissing, PairStd, PredStd, BadStd), MkPrg(NotAbsurd, PairStd, PredStd, BadStd),
     MkPrg(NotDuplicate, PairStd, PredStd, BadStd), MkPrg(NotStd, PairMissing, PredStd, BadStd),
     MkPrg(NotStd, PairAbsurd, PredStd, BadStd), MkPrg(NotStd, PairStd, PredArity, BadStd),
     PrgBadLookup}

Prgs == CheckedPrgs \cup UncheckedPrgs

-----------------------------------------------------------------------------
(* Tables and names handed to the accessors of the declaration table *)

\* A table whose two indices disagree with its map: True is an xtor of Bool
\* and is also entered as an xdef of PairT, S is entered under a type that is
\* not declared, pred under a name that is a def, Const in no index at all.
PrgClash ==
    [decls |->
      [map |-> PrgStd.decls.map,
       xtor_to_type |->
            ("True" :> TypeDecl("Bool")) @@ ("False" :> TypeDecl("Bool"))
         @@ ("Z" :> TypeDecl("Nat")) @@ ("S" :> TypeDecl("Ghost"))
         @@ ("fst" :> TypeDecl("PairT")),
       xdef_to_type |->
            ("True" :> TypeDecl("PairT")) @@ ("not" :> TypeDecl("Bool"))
         @@ ("pred" :> TypeDecl("not")) @@ ("Pair" :> TypeDecl("PairT"))
         @@ ("Z" :> TypeDecl("Fun"))]]

LookupPrgs == {PrgStd, PrgClash}

Accessors ==
    {"decl", "typ", "data", "codata", "def", "codef", "ctor", "dtor", "ctor_or_codef",
     "dtor_or_def", "type_decl_for_member"}

LookupNames == DOMAIN PrgStd.decls.map \cup {"Nope"}

\* The accessor of that name applied to the table
Lookup(acc, decls, name) ==
    CASE acc = "decl" -> decl(decls, name)
      [] acc = "typ" -> typ(decls, name)
      [] acc = "data" -> data(decls, name)
      [] acc = "codata" -> codata(decls, name)
      [] acc = "def" -> def(decls, name)
      [] acc = "codef" -> codef(decls, name)
      [] acc = "ctor" -> ctor(decls, name)
      [] acc = "dtor" -> dtor(decls, name)
      [] acc = "ctor_or_codef" -> ctor_or_codef(decls, name)
      [] acc = "dtor_or_def" -> dtor_or_def(decls, name)
      [] acc = "type_decl_for_member" -> type_decl_for_member(decls, name)

-----------------------------------------------------------------------------
(* The test runner's run command *)

\* filter is an Option<String>: <<>> when --filter is not given, <<f>> when it is
Args(filter, debug, update_expected) ==
    [filter |-> filter, debug |-> debug, update_expected |-> update_expected]

\* The test cases the runner has loaded
Suite == {"a1", "a2", "b1"}

Filters == {"*", "a*", "b1", "zz"}

\* The cases a filter selects
Selected_cases(filter) ==
    CASE filter = "*" -> Suite
      [] filter = "a*" -> {"a1", "a2"}
      [] filter = "b1" -> {"b1"}
      [] OTHER -> {}

\* Runner::run: the selected cases are run; passes says which cases pass
runner_run(config, passes) ==
    [cases |-> Selected_cases(config.filter),
     failed |-> {t \in Selected_cases(config.filter) : ~passes[t]}]

\* the run is successful when no case failed
success(r) == r.failed = {}

\* An exec that takes the update of the expected outputs for a success.
exec_lenient(cmd, passes) ==
    LET config == [filter |-> IF cmd.filter = <<>> THEN "*" ELSE cmd.filter[1], debug |-> cmd.debug]
        r == runner_run(config, passes)
    IN [config |-> config, res |-> r,
        out |-> IF cmd.update_expected THEN "update_expected" ELSE "print",
        exit |-> IF ~cmd.update_expected /\ ~success(r) THEN 1 ELSE 0]

\* exec: exit is 1 for std::process::exit(1), 0 when exec returns
exec(cmd, passes) ==
    LET config == [filter |-> IF cmd.filter = <<>> THEN "*" ELSE cmd.filter[1], debug |-> cmd.debug]
        r == runner_run(config, passes)
    IN [config |-> config, res |-> r,
        out |-> IF cmd.update_expected THEN "update_expected" ELSE "print",
        exit |-> IF ~success(r) THEN 1 ELSE 0]

-----------------------------------------------------------------------------
(* Terms and environments handed to eval *)

vX == ValNeu(NeuVar("x", 0))

Envs == {<<>>, <<vTrue, vX>>}

Leaves ==
    {Variable(0, "x"), Variable(1, "b"), cTrue, cFalse, cZ, cPair, TypeUniv, Hole,
     TypCtor("Bool", <<>>), Call("Ghost", "Ctor", <<>>), Call("Nope", "Codef", <<>>),
     Call("not", "Def", <<>>)}

SmallLeaves == {cTrue, cZ, Hole, Variable(0, "x")}

ComatchAp == LocalComatch("k", FALSE, Match(<<Case("ap", 1, Variable(0, "a"))>>))

ComatchFst == LocalComatch("p", FALSE, Match(<<Case("fst", 0, Variable(1, "b")),
                                                Case("snd", 0, None)>>))

Compounds ==
    {cS(l) : l \in SmallLeaves} \cup {cConst(l) : l \in SmallLeaves}
      \cup {Anno(l, t) : l \in {cTrue, Hole}, t \in {TypCtor("Bool", <<>>), DotCall(cTrue, "nope", <<>>)}}
      \cup {ComatchAp, ComatchFst, TypCtor("Vec", <<cZ, DotCall(cTrue, "nope", <<>>), Hole>>)}

Receivers == Leaves \cup Compounds

DotNames == {"not", "and", "pred", "loop", "bad", "fst", "snd", "ap", "nope"}

ArgLists == {<<>>, <<cTrue>>, <<Hole>>, <<DotCall(cTrue, "nope", <<>>)>>}

MatchBodies ==
    {NotStd, NotMissing, NotAbsurd, NotDuplicate, PredStd, PredArity,
     Match(<<Case("S", 1, DotCall(Variable(0, "n"), "not", <<>>)), Case("Z", 0, Variable(0, "x"))>>)}

DotCalls == {DotCall(r, n, a) : r \in Receivers, n \in DotNames, a \in ArgLists}

LocalMatches == {LocalMatch("m", r, b) : r \in Receivers, b \in MatchBodies}

Nested ==
    {DotCall(DotCall(r, n, a), m, <<>>) :
        r \in {cTrue, cS(cZ), cConst(cTrue), Variable(0, "x")},
        n \in {"not", "pred", "ap", "bad"}, a \in {<<>>, <<cTrue>>}, m \in {"not", "fst", "nope"}}
      \cup {LocalMatch("m", DotCall(r, n, <<>>), b) :
        r \in {cTrue, cS(cZ), Hole}, n \in {"not", "pred", "bad"}, b \in {NotStd, PredStd}}

\* Terms with two subterms that fail, each with an error of its own
Ordered ==
    LET nope == DotCall(cTrue, "nope", <<>>)
        ghost == DotCall(Call("Ghost", "Ctor", <<>>), "not", <<>>)
    IN {DotCall(nope, "not", <<ghost>>), DotCall(ghost, "not", <<nope>>),
        DotCall(cTrue, "and", <<ghost, nope>>), DotCall(cTrue, "and", <<nope, ghost>>),
        DotCall(cTrue, "and", <<cTrue, nope, ghost>>),
        TypCtor("Vec", <<ghost, nope>>), Call("S", "Ctor", <<nope, ghost>>),
        LocalMatch("m", ghost, Match(<<Case("True", 0, nope)>>)),
        LocalMatch("m", nope, NotStd), Anno(ghost, nope)}

\* Terms in which a comatch is built in one environment and applied in
\* another: built under the binding of a case and applied after the case has
\* returned, or built first and applied under a binding made afterwards
Escaping ==
    LET k(b) == LocalComatch("k", FALSE, Match(<<Case("ap", 1, b)>>))
        bodies == {Variable(0, "a"), Variable(1, "n"), Variable(2, "x"), Variable(3, "b")}
    IN {DotCall(LocalMatch("m", cS(l), Match(<<Case("S", 1, k(b))>>)), "ap", <<a>>) :
            l \in {cZ, cTrue}, b \in bodies, a \in {cTrue, Hole, Variable(0, "x")}}
         \cup {LocalMatch("m", cS(k(b)), Match(<<Case("S", 1, DotCall(Variable(0, "n"), "ap", <<a>>))>>)) :
            b \in bodies, a \in {cTrue, Hole, Variable(1, "x")}}

\* Annotated terms, with types that evaluate and types that do not
Annotated ==
    LET nope == DotCall(cTrue, "nope", <<>>)
        types == {TypCtor("Bool", <<>>), TypeUniv, nope, Variable(5, "t"),
                  DotCall(cTrue, "bad", <<>>), LocalMatch("m", cTrue, NotMissing)}
    IN {Anno(e, t) : e \in Leaves \cup {nope, DotCall(cTrue, "not", <<>>), ComatchFst,
                                         DotCall(cS(cZ), "pred", <<>>), LocalMatch("m", cTrue, NotAbsurd)},
                     t \in types}
         \cup {Anno(Anno(cTrue, nope), nope), DotCall(Anno(cTrue, nope), "not", <<Anno(cTrue, nope)>>)}

Exps == Receivers \cup DotCalls \cup LocalMatches \cup Nested \cup Ordered \cup Escaping \cup Annotated

-----------------------------------------------------------------------------
(* Modules handed to xfunc.  A module is the sequence of its top-level       *)
(* declarations; typ is the type a def or codef belongs to, xtors the        *)
(* constructors or destructors of a data or codata type.                     *)

Span(a, b) == [start |-> a, end |-> b]

\* A constructor or destructor with params.len()
Xtor(name, params) == [name |-> name, params |-> params]

\* body is the match or comatch of a def or codef, None for a type
TopDecl(kind, name, span, typ0, xtors, params, body) ==
    [kind |-> kind, name |-> name, span |-> span, typ |-> typ0, xtors |-> xtors,
     params |-> params, body |-> body]

name_of(d) == d.name

span_of(d) == d.span

Names(m) == {m.decls[i].name : i \in 1..Len(m.decls)}

lookup_decl(m, name) ==
    IF name \in Names(m)
    THEN m.decls[CHOOSE i \in 1..Len(m.decls) : m.decls[i].name = name]
    ELSE None

\* the defs or codefs of the type, in declaration order
xdefs_for_type(m, type_name) ==
    LET ds == SelectSeq(m.decls, LAMBDA d : d.kind \in {"Def", "Codef"} /\ d.typ = type_name)
    IN [i \in 1..Len(ds) |-> ds[i].name]

xtors_for_type(m, type_name) ==
    LET d == lookup_decl(m, type_name)
    IN IF d # None /\ d.kind \in {"Data", "Codata"}
       THEN [i \in 1..Len(d.xtors) |-> d.xtors[i].name]
       ELSE <<>>

Range(f) == {f[i] : i \in DOMAIN f}

\* lifting::lift: the module with the local (co)matches on the type lifted
\* to top-level definitions, and the names of the declarations it modified,
\* in the iteration order of the set.  Which declarations contain such a
\* (co)match is a property of the source text: any declaration may.
lift(m, type_name, modified) == [module |-> m, modified_decls |-> modified]

RECURSIVE Rewrite(_, _, _)
\* The traversals of a term that leave its shape alone.  how.op says what is
\* done at the leaves; depth counts the parameters bound by the cases passed
\* on the way down.
\*   "swap":  a body written under [outer params, inner params] is made to
\*            read the same values under [inner params, outer params]
\*   "rename": bound names are made canonical
\*   "print": the text of a call holds its name, not its kind
\*   "lower": the kind of a call is what the name is declared as
RewriteVariable(e, how, depth) ==
    LET k == e.idx - depth
    IN CASE how.op = "swap" ->
              IF k < 0 THEN e
              ELSE IF k < how.inner THEN Variable(e.idx + how.outer, e.name)
              ELSE IF k < how.inner + how.outer THEN Variable(e.idx - how.inner, e.name)
              ELSE e
         [] how.op = "rename" -> Variable(e.idx, "x")
         [] OTHER -> e

RewriteKind(e, how) ==
    CASE how.op = "print" -> ""
      [] how.op = "lower" -> IF e.name \in DOMAIN how.kinds THEN how.kinds[e.name] ELSE e.kind
      [] OTHER -> e.kind

RewriteArgs(xs, how, depth) == [i \in 1..Len(xs) |-> Rewrite(xs[i], how, depth)]

RewriteMatch(m, how, depth) ==
    Match([i \in 1..Len(m.cases) |->
             Case(m.cases[i].name, m.cases[i].params,
                  IF m.cases[i].body = None THEN None
                  ELSE Rewrite(m.cases[i].body, how, depth + m.cases[i].params))])

Rewrite(e, how, depth) ==
    CASE e.tag = "Variable" -> RewriteVariable(e, how, depth)
      [] e.tag = "TypCtor" -> TypCtor(e.name, RewriteArgs(e.args, how, depth))
      [] e.tag = "Call" -> Call(e.name, RewriteKind(e, how), RewriteArgs(e.args, how, depth))
      [] e.tag = "DotCall" ->
           DotCall(Rewrite(e.exp, how, depth), e.name, RewriteArgs(e.args, how, depth))
      [] e.tag = "Anno" -> Anno(Rewrite(e.exp, how, depth), Rewrite(e.typ, how, depth))
      [] e.tag = "LocalMatch" ->
           LocalMatch(e.name, Rewrite(e.on_exp, how, depth), RewriteMatch(e.body, how, depth))
      [] e.tag = "LocalComatch" ->
           LocalComatch(e.name, e.is_lambda_sugar, RewriteMatch(e.body, how, depth))
      [] OTHER -> e

\* Swap the two innermost binding levels of a case body
swap(body, inner, outer) ==
    IF body = None THEN None
    ELSE Rewrite(body, [op |-> "swap", inner |-> inner, outer |-> outer], 0)

\* Rename for a declaration: alpha-renaming, the structure is left alone
rename(d) ==
    IF d.body = None THEN d
    ELSE [d EXCEPT !.body = RewriteMatch(d.body, [op |-> "rename"], 0)]

CaseNames(body) == {body.cases[i].name : i \in 1..Len(body.cases)}

FirstCase(body, name) ==
    body.cases[CHOOSE i \in 1..Len(body.cases) :
                  /\ body.cases[i].name = name
                  /\ \A j \in 1..(i - 1) : body.cases[j].name # name]

\* xfunc::as_matrix: one row per type, with the type's span, its xtors and
\* xdefs in declaration order, and one cell per case of an xdef: the cell of
\* (xtor, xdef) is the case named xtor in the body of xdef.
as_matrix(m) ==
    [map |-> [n \in {d \in Names(m) : lookup_decl(m, d).kind \in {"Data", "Codata"}} |->
                LET t == lookup_decl(m, n)
                    xdefs == xdefs_for_type(m, n)
                IN [span |-> t.span,
                    repr |-> t.kind,
                    xtors |-> xtors_for_type(m, n),
                    xdefs |-> xdefs,
                    xtor_params |-> [x \in Range(xtors_for_type(m, n)) |->
                                       t.xtors[CHOOSE i \in 1..Len(t.xtors) : t.xtors[i].name = x].params],
                    xdef_params |-> [x \in Range(xdefs) |-> lookup_decl(m, x).params],
                    cell |-> [c \in UNION {{<<xt, xd>> : xt \in CaseNames(lookup_decl(m, xd).body)} :
                                            xd \in Range(xdefs)} |->
                                FirstCase(lookup_decl(m, c[2]).body, c[1])]]]]

repr(mat, type_name) == mat.map[type_name].repr

\* The transposition both directions share: the xdefs become the xtors of
\* the new type, and every former xtor becomes an xdef whose cases are the
\* cells of its row, in the order of the former xdefs.
Transposed(mat, type_name, type_kind, xdef_kind) ==
    LET row == mat.map[type_name]
        cases(xt) ==
            LET present == SelectSeq(row.xdefs, LAMBDA xd : <<xt, xd>> \in DOMAIN row.cell)
            IN [i \in 1..Len(present) |->
                  Case(present[i], row.xdef_params[present[i]],
                       swap(row.cell[<<xt, present[i]>>].body,
                            row.xtor_params[xt], row.xdef_params[present[i]]))]
    IN [typ |-> TopDecl(type_kind, type_name, None, "",
                        [i \in 1..Len(row.xdefs) |->
                           Xtor(row.xdefs[i], row.xdef_params[row.xdefs[i]])], 0, None),
        xdefs |-> [i \in 1..Len(row.xtors) |->
                     TopDecl(xdef_kind, row.xtors[i], None, type_name, <<>>,
                             row.xtor_params[row.xtors[i]], Match(cases(row.xtors[i])))]]

\* xfunc::as_codata: the codata type with one destructor per def, and one codef per constructor
as_codata(mat, type_name) == Transposed(mat, type_name, "Codata", "Codef")

\* xfunc::as_data: the data type with one constructor per codef, and one def per destructor
as_data(mat, type_name) == Transposed(mat, type_name, "Data", "Def")

\* A refunctionalize that loses the codef of the last constructor.
refunctionalize_short(mat, type_name) ==
    LET r == as_codata(mat, type_name)
    IN [title |-> <<"Refunctionalize", type_name>>,
        new_decls |-> <<rename(r.typ)>> \o [i \in 1..(Len(r.xdefs) - 1) |-> rename(r.xdefs[i])]]

refunctionalize(mat, type_name) ==
    LET r == as_codata(mat, type_name)
    IN [title |-> <<"Refunctionalize", type_name>>,
        new_decls |-> <<rename(r.typ)>> \o [i \in 1..Len(r.xdefs) |-> rename(r.xdefs[i])]]

defunctionalize(mat, type_name) ==
    LET r == as_data(mat, type_name)
    IN [title |-> <<"Defunctionalize", type_name>>,
        new_decls |-> <<rename(r.typ)>> \o [i \in 1..Len(r.xdefs) |-> rename(r.xdefs[i])]]

\* The text of one declaration: what is written down of it.  The text has
\* no span of its own, and a call is written as a name and its arguments.
Printed(d) ==
    [kind |-> d.kind, name |-> d.name, typ |-> d.typ, xtors |-> d.xtors, params |-> d.params,
     body |-> IF d.body = None THEN None ELSE RewriteMatch(d.body, [op |-> "print"], 0)]

\* The printed text of a list of declarations, in their order; the empty
\* text is the empty sequence.
print_to_string(ds) == [i \in 1..Len(ds) |-> Printed(ds[i])]

Edit(span, text) == [span |-> span, text |-> text]

XOk(title, edits) == [st |-> "Ok", title |-> title, edits |-> edits, err |-> NoErr]

XErr(e) == [st |-> "Err", title |-> <<>>, edits |-> <<>>, err |-> e]

XPanic == [st |-> "Panic", title |-> <<>>, edits |-> <<>>, err |-> NoErr]

NoXres == [st |-> "None", title |-> <<>>, edits |-> <<>>, err |-> NoErr]

\* A generate_edits that leaves the definitions of the previous decomposition in place.
generate_edits_keep(m, original, dirty_decls, result) ==
    LET type_text == print_to_string(result.new_decls)
        first == <<Edit(original.type_span, type_text)>>
        touched == [i \in 1..Len(dirty_decls) |->
                      Edit(original.decl_spans[dirty_decls[i]],
                           print_to_string(<<rename(lookup_decl(m, dirty_decls[i]))>>))]
    IN IF \E i \in 1..Len(dirty_decls) :
             lookup_decl(m, dirty_decls[i]) = None \/ dirty_decls[i] \notin DOMAIN original.decl_spans
       THEN XPanic
       ELSE XOk(result.title, first \o touched)

\* `module.lookup_decl(&name).unwrap()` and `original.decl_spans[&name]`
\* panic for a name that is no declaration of the module.
generate_edits(m, original, dirty_decls, result) ==
    LET type_text == print_to_string(result.new_decls)
        first == <<Edit(original.type_span, type_text)>>
        touched == [i \in 1..Len(dirty_decls) |->
                      Edit(original.decl_spans[dirty_decls[i]],
                           print_to_string(<<rename(lookup_decl(m, dirty_decls[i]))>>))]
        removed == [i \in 1..Len(original.xdefs) |->
                      Edit(original.decl_spans[original.xdefs[i]], <<>>)]
    IN IF \E i \in 1..Len(dirty_decls) :
             lookup_decl(m, dirty_decls[i]) = None \/ dirty_decls[i] \notin DOMAIN original.decl_spans
       THEN XPanic
       ELSE XOk(result.title, first \o touched \o removed)

\* An xfunc that takes the direction the wrong way round.
xfunc_backwards(m0, type_name, modified) ==
    IF \E i \in 1..Len(m0.decls) : span_of(m0.decls[i]) = None THEN XPanic
    ELSE LET decl_spans == [n \in Names(m0) |-> span_of(lookup_decl(m0, n))]
             xdefs == xdefs_for_type(m0, type_name)
             xtors == xtors_for_type(m0, type_name)
             filter_out == Range(xdefs) \cup Range(xtors)
             lifted == lift(m0, type_name, modified)
             m == lifted.module
             dirty_decls == SelectSeq(lifted.modified_decls, LAMBDA n : n \notin filter_out)
             mat == as_matrix(m)
         IN IF type_name \notin DOMAIN mat.map \/ mat.map[type_name].span = None
            THEN XErr(Impossible)
            ELSE LET original == [type_span |-> mat.map[type_name].span,
                                  decl_spans |-> decl_spans, xdefs |-> xdefs]
                     result == IF repr(mat, type_name) = "Codata"
                               THEN refunctionalize(mat, type_name)
                               ELSE defunctionalize(mat, type_name)
                 IN generate_edits(m, original, dirty_decls, result)

\* Database::xfunc.  modified is what lifting reports for this module.
xfunc(m0, type_name, modified) ==
    IF \E i \in 1..Len(m0.decls) : span_of(m0.decls[i]) = None THEN XPanic
    ELSE LET decl_spans == [n \in Names(m0) |-> span_of(lookup_decl(m0, n))]
             xdefs == xdefs_for_type(m0, type_name)
             xtors == xtors_for_type(m0, type_name)
             filter_out == Range(xdefs) \cup Range(xtors)
             lifted == lift(m0, type_name, modified)
             m == lifted.module
             dirty_decls == SelectSeq(lifted.modified_decls, LAMBDA n : n \notin filter_out)
             mat == as_matrix(m)
         IN IF type_name \notin DOMAIN mat.map \/ mat.map[type_name].span = None
            THEN XErr(Impossible)
            ELSE LET original == [type_span |-> mat.map[type_name].span,
                                  decl_spans |-> decl_spans, xdefs |-> xdefs]
                     result == IF repr(mat, type_name) = "Data"
                               THEN refunctionalize(mat, type_name)
                               ELSE defunctionalize(mat, type_name)
                 IN generate_edits(m, original, dirty_decls, result)

RECURSIVE Concat(_)
Concat(ss) == IF Len(ss) = 0 THEN <<>> ELSE Head(ss) \o Concat(Tail(ss))

\* The source text after the edits have been applied to it: a declaration
\* whose span an edit carries is replaced by the text of the edit, the others
\* stand as they were written.
apply_edits(m, edits) ==
    LET hit(i) == {k \in 1..Len(edits) : edits[k].span = m.decls[i].span}
    IN Concat([i \in 1..Len(m.decls) |->
                  IF hit(i) = {} THEN print_to_string(<<m.decls[i]>>)
                  ELSE edits[CHOOSE k \in hit(i) : TRUE].text])

\* What a name is when it is called: a constructor of a data type or a codef
CallKinds(text) ==
    LET ctors == UNION {{text[i].xtors[j].name : j \in 1..Len(text[i].xtors)} :
                           i \in {k \in 1..Len(text) : text[k].kind = "Data"}}
        codefs == {text[i].name : i \in {k \in 1..Len(text) : text[k].kind = "Codef"}}
    IN [n \in ctors \cup codefs |-> IF n \in ctors THEN "Ctor" ELSE "Codef"]

\* load_module: the text is parsed and lowered; every declaration gets the
\* span of its place in the text, every call the kind its name is declared as.
load_module(text) ==
    [decls |-> [i \in 1..Len(text) |->
                  TopDecl(text[i].kind, text[i].name, Span(i - 1, i), text[i].typ, text[i].xtors,
                          text[i].params,
                          IF text[i].body = None THEN None
                          ELSE RewriteMatch(text[i].body,
                                            [op |-> "lower", kinds |-> CallKinds(text)], 0))]]

\* The declaration table of a module: every declaration and every xtor by
\* name, and the lookup table from xtors and xdefs to their type.
ProgramOf(m) ==
    LET types == {i \in 1..Len(m.decls) : m.decls[i].kind \in {"Data", "Codata"}}
        xdefs == {i \in 1..Len(m.decls) : m.decls[i].kind \in {"Def", "Codef"}}
        xtors == UNION {{<<i, j>> : j \in 1..Len(m.decls[i].xtors)} : i \in types}
        xtorNames == {m.decls[x[1]].xtors[x[2]].name : x \in xtors}
        owner(n) == CHOOSE x \in xtors : m.decls[x[1]].xtors[x[2]].name = n
    IN [decls |->
         [map |-> [n \in Names(m) \cup xtorNames |->
                     IF n \in Names(m)
                     THEN Decl(lookup_decl(m, n).kind, n, lookup_decl(m, n).params,
                               lookup_decl(m, n).body)
                     ELSE Decl(IF m.decls[owner(n)[1]].kind = "Data" THEN "Ctor" ELSE "Dtor", n,
                               m.decls[owner(n)[1]].xtors[owner(n)[2]].params, None)],
          xtor_to_type |-> [n \in xtorNames |-> TypeDecl(m.decls[owner(n)[1]].name)],
          xdef_to_type |-> [n \in {m.decls[i].name : i \in xdefs} |->
                              TypeDecl(lookup_decl(m, n).typ)]]]

RECURSIVE Layouts(_, _)
\* k spans in source order, pairwise disjoint, as the parser produces them
Layouts(k, from) ==
    IF k = 0 THEN {<<>>}
    ELSE UNION {UNION {{<<Span(a, b)>> \o rest : rest \in Layouts(k - 1, b)} :
                          b \in (a + 1)..MaxOffset} : a \in from..MaxOffset}

\* data T { A, B(x) }  def T.f { A => A, B(x) => x }
\* def T.g(y) { A => y, B(x) => x.g(y) }  data U { C }  def U.h { C => A }
\* or, with T a codata type,
\* codata T { A, B(x) }  codef f: T { A => f, B(x) => x }
\* codef g(y): T { A => y, B(x) => x.B(y) }  data U { C }  def U.h { C => f }
MkModule(kindT, spans, nospan) ==
    LET xdefKind == IF kindT = "Data" THEN "Def" ELSE "Codef"
        sp(i) == IF i = nospan THEN None ELSE spans[i]
        unit == IF kindT = "Data" THEN Call("A", "Ctor", <<>>) ELSE Call("f", "Codef", <<>>)
        again == IF kindT = "Data" THEN "g" ELSE "B"
    IN [decls |-> <<TopDecl(kindT, "T", sp(1), "", <<Xtor("A", 0), Xtor("B", 1)>>, 0, None),
                    TopDecl(xdefKind, "f", sp(2), "T", <<>>, 0,
                            Match(<<Case("A", 0, unit), Case("B", 1, Variable(0, "x"))>>)),
                    TopDecl("Data", "U", sp(3), "", <<Xtor("C", 0)>>, 0, None),
                    TopDecl(xdefKind, "g", sp(4), "T", <<>>, 1,
                            Match(<<Case("A", 0, Variable(0, "y")),
                                    Case("B", 1, DotCall(Variable(0, "x"), again,
                                                         <<Variable(1, "y")>>))>>)),
                    TopDecl("Def", "h", sp(5), "U", <<>>, 0, Match(<<Case("C", 0, unit)>>))>>]

Modules ==
    {MkModule(k, l, n) : k \in {"Data", "Codata"}, l \in Layouts(5, 0), n \in {0, 1, 2}}

TypeNames == {"T", "U", "f", "Nope"}

DirtyNames == {"T", "f", "g", "U", "h", "A", "C"}

\* the sets lifting may report, each in every iteration order
ModifiedDecls ==
    {s \in UNION {[1..n -> DirtyNames] : n \in 0..MaxDirty} :
        \A i, j \in 1..Len(s) : i # j => s[i] # s[j]}

-----------------------------------------------------------------------------
(* The state machine *)

VARIABLES pc, prg, exp, env, res, module, type_name, xres, modified, module0, round,
          call, lres, cmd, tres

vars == <<pc, prg, exp, env, res, module, type_name, xres, modified, module0, round,
          call, lres, cmd, tres>>

NoRes == [st |-> "None", val |-> None, err |-> NoErr, env |-> <<>>, log |-> <<>>]

NoModule == [decls |-> <<>>]

NoCall == [acc |-> "", name |-> ""]

NoLres == [st |-> "None", val |-> None, err |-> NoErr]

NoCmd == Args(<<>>, FALSE, FALSE)

NoTres == [config |-> [filter |-> "", debug |-> FALSE], res |-> [cases |-> {}, failed |-> {}],
           out |-> "", exit |-> 0]

LookupIdle == call = NoCall /\ lres = NoLres

RunnerIdle == cmd = NoCmd /\ tres = NoTres

EvalIdle == exp = Hole /\ env = <<>> /\ res = NoRes

XfuncIdle ==
    /\ module = NoModule /\ type_name = "" /\ xres = NoXres
    /\ modified = <<>> /\ module0 = NoModule /\ round = 0

InitEval ==
    /\ pc = "eval"
    /\ prg \in Prgs
    /\ exp \in Exps
    /\ env \in Envs
    /\ res = NoRes
    /\ XfuncIdle /\ LookupIdle /\ RunnerIdle

\* modified is what lifting reports for the module: a property of its text.
\* module0 is the module as first loaded, with the spans of a fresh load.
InitXfunc ==
    /\ pc = "xfunc"
    /\ module \in Modules
    /\ type_name \in TypeNames
    /\ modified \in ModifiedDecls
    /\ module0 = load_module(print_to_string(module.decls))
    /\ round = 0
    /\ xres = NoXres
    /\ prg = PrgStd /\ EvalIdle /\ LookupIdle /\ RunnerIdle

InitLookup ==
    /\ pc = "lookup"
    /\ prg \in LookupPrgs
    /\ call \in [acc : Accessors, name : LookupNames]
    /\ lres = NoLres
    /\ EvalIdle /\ XfuncIdle /\ RunnerIdle

InitRunner ==
    /\ pc = "exec"
    /\ cmd \in {Args(f, d, u) : f \in {<<>>} \cup {<<x>> : x \in Filters}, d \in BOOLEAN, u \in BOOLEAN}
    /\ tres = NoTres
    /\ prg = PrgStd /\ EvalIdle /\ XfuncIdle /\ LookupIdle

Init == InitEval \/ InitXfunc \/ InitLookup \/ InitRunner

\* exp.eval(prg, &mut env)
DoEval ==
    /\ pc = "eval"
    /\ res' = Eval(exp, prg, env, <<>>, Fuel)
    /\ pc' = "done"
    /\ UNCHANGED <<prg, exp, env, module, type_name, xres, modified, module0, round, call, lres, cmd, tres>>

\* exp.eval(prg, &mut env) once more, after the first call has returned: the
\* same term and table, and the environment as the first call left it
DoEvalAgain ==
    /\ pc = "done"
    /\ Returned(res)
    /\ res' = Eval(exp, prg, res.env, <<>>, Fuel)
    /\ pc' = "done2"
    /\ UNCHANGED <<prg, exp, env, module, type_name, xres, modified, module0, round, call, lres, cmd, tres>>

\* db.xfunc(uri, type_name)
DoXfunc ==
    /\ pc = "xfunc"
    /\ xres' = xfunc(module, type_name, modified)
    /\ pc' = "xdone"
    /\ UNCHANGED <<prg, exp, env, res, module, type_name, modified, module0, round, call, lres, cmd, tres>>

Disjoint(edits) ==
    \A i, j \in 1..Len(edits) :
        i # j => (edits[i].span # edits[j].span
                  /\ (edits[i].span.end <= edits[j].span.start
                      \/ edits[j].span.end <= edits[i].span.start))

\* The caller applies the edits of a successful xfunc to the source, which
\* it may do when they do not overlap, and the module is loaded again.
ApplyEdits ==
    /\ pc = "xdone"
    /\ xres.st = "Ok"
    /\ round < MaxRounds
    /\ Disjoint(xres.edits)
    /\ module' = load_module(apply_edits(module, xres.edits))
    /\ modified' \in ModifiedDecls
    /\ round' = round + 1
    /\ xres' = NoXres
    /\ pc' = "xfunc"
    /\ UNCHANGED <<prg, exp, env, res, type_name, module0, call, lres, cmd, tres>>

\* one call of an accessor of the declaration table
DoLookup ==
    /\ pc = "lookup"
    /\ lres' = Lookup(call.acc, prg.decls, call.name)
    /\ pc' = "found"
    /\ UNCHANGED <<prg, exp, env, res, module, type_name, xres, modified, module0, round,
                   call, cmd, tres>>

\* test-runner run
DoExec ==
    /\ pc = "exec"
    /\ \E passes \in [Suite -> BOOLEAN] : tres' = exec(cmd, passes)
    /\ pc' = "exited"
    /\ UNCHANGED <<prg, exp, env, res, module, type_name, xres, modified, module0, round,
                   call, lres, cmd>>

Next == DoEval \/ DoEvalAgain \/ DoXfunc \/ ApplyEdits \/ DoLookup \/ DoExec

Spec == Init /\ [][Next]_vars

-----------------------------------------------------------------------------
(* Properties of eval *)

Outcome(r) == <<r.st, r.val, r.err>>

\* The evaluation of a direct subterm of exp, as the handler of exp performs it
Sub(e) == Eval(e, prg, env, <<>>, Fuel - 1)

SubArgs(xs) == EvalArgs(xs, prg, env, <<>>, Fuel - 1)

HasCase(m, name) == \E i \in 1..Len(m.cases) : m.cases[i].name = name

CaseNamed(m, name) == m.cases[Min({i \in 1..Len(m.cases) : m.cases[i].name = name})]

Betas(log) == Cardinality({i \in 1..Len(log) : log[i].ev \in {"beta_match", "beta_comatch"}})

Count(log, ev) == Cardinality({i \in 1..Len(log) : log[i].ev = ev})

OwnerKind(name) ==
    LET t == type_decl_for_member(prg.decls, name)
    IN IF t.st = "Ok" THEN t.val.kind ELSE "None"

IsDef(name) == name \in DOMAIN prg.decls.map /\ prg.decls.map[name].kind = "Def"

IsCodef(name) == name \in DOMAIN prg.decls.map /\ prg.decls.map[name].kind = "Codef"

TrueDotNot == DotCall(cTrue, "not", <<>>)

\* C1: a DotCall e.n(args) whose receiver evaluates to Ctor(c, ca), c owned by
\* a data type, returns what the body of the case named c of def n returns
\* in the environment made of the evaluated args followed by ca, whatever the
\* caller's environment is; True.not is False.
C1_DefOnData ==
    /\ (pc = "done" /\ exp.tag = "DotCall") =>
          LET x == Sub(exp.exp)
              a == SubArgs(exp.args)
          IN (/\ x.st = "Ok" /\ a.st = "Ok" /\ x.val.tag = "Ctor"
              /\ OwnerKind(x.val.name) = "Data" /\ IsDef(exp.name)
              /\ HasCase(prg.decls.map[exp.name].body, x.val.name)
              /\ CaseNamed(prg.decls.map[exp.name].body, x.val.name).body # None)
             => Outcome(res) =
                  Outcome(Eval(CaseNamed(prg.decls.map[exp.name].body, x.val.name).body,
                               prg, a.val \o x.val.args, <<>>, Fuel - 1))
    /\ (pc = "done" /\ prg \in CheckedPrgs /\ exp = TrueDotNot) =>
          (res.st = "Ok" /\ res.val = vFalse)
    /\ (pc = "done" /\ prg \in CheckedPrgs /\ exp = DotCall(cFalse, "not", <<>>)) =>
          (res.st = "Ok" /\ res.val = vTrue)

C1_Witness ==
    pc = "done" /\ prg = PrgStd /\ exp = TrueDotNot /\ res.st = "Ok" /\ res.val = vFalse

\* C2: a DotCall e.n(args) whose receiver evaluates to Ctor(c, ca), c a codef
\* of a codata type, returns what the body of the cocase named n of codef c
\* returns in the environment made of ca followed by the evaluated args;
\* Pair.fst is 1 and Pair.snd is 2.
C2_CodefDtor ==
    /\ (pc = "done" /\ exp.tag = "DotCall") =>
          LET x == Sub(exp.exp)
              a == SubArgs(exp.args)
          IN (/\ x.st = "Ok" /\ a.st = "Ok" /\ x.val.tag = "Ctor"
              /\ OwnerKind(x.val.name) = "Codata" /\ IsCodef(x.val.name)
              /\ HasCase(prg.decls.map[x.val.name].body, exp.name)
              /\ CaseNamed(prg.decls.map[x.val.name].body, exp.name).body # None)
             => Outcome(res) =
                  Outcome(Eval(CaseNamed(prg.decls.map[x.val.name].body, exp.name).body,
                               prg, x.val.args \o a.val, <<>>, Fuel - 1))
    /\ (pc = "done" /\ prg = PrgStd /\ exp = DotCall(cPair, "fst", <<>>)) =>
          (res.st = "Ok" /\ res.val = vS(vZ))
    /\ (pc = "done" /\ prg = PrgStd /\ exp = DotCall(cPair, "snd", <<>>)) =>
          (res.st = "Ok" /\ res.val = vS(vS(vZ)))

C2_Witness ==
    /\ pc = "done" /\ prg = PrgStd /\ res.st = "Ok" /\ res.val = vTrue
    /\ exp = DotCall(cConst(cTrue), "ap", <<Hole>>)

\* C3 as stated: Call(n, Codef, args) reads codef n from the table and
\* returns the value of its body under the evaluated args; a name that is
\* not in the table makes the Call return a lookup error.
C3_Original ==
    (pc = "done" /\ exp.tag = "Call" /\ exp.kind \in {"Codef", "Def"}
       /\ SubArgs(exp.args).st = "Ok") =>
        IF exp.name \in DOMAIN prg.decls.map
        THEN /\ res.st = "Ok"
             /\ res.val.tag = "Comatch"
             /\ res.val.body = EvalMatch(prg.decls.map[exp.name].body, prg,
                                         SubArgs(exp.args).val, <<>>, Fuel - 1).val
        ELSE res.st = "Err" /\ res.err.kind = "UndefinedDeclaration"

\* C3 amended: Call(n, kind, args) never reads the declaration table: it
\* evaluates args and returns Ctor(kind, n, args), for every kind and also
\* for a name that is not in the table; it fails only as its args fail.
C3_CallIsCtor ==
    (pc = "done" /\ exp.tag = "Call") =>
        LET a == SubArgs(exp.args)
        IN IF a.st = "Ok"
           THEN res.st = "Ok" /\ res.val = ValCtor(exp.kind, exp.name, a.val)
           ELSE Outcome(res) = Outcome(a)

C3_Witness ==
    /\ pc = "done" /\ exp = Call("Nope", "Codef", <<>>)
    /\ "Nope" \notin DOMAIN prg.decls.map
    /\ res.st = "Ok" /\ res.val = ValCtor("Codef", "Nope", <<>>)

NeuVal(r) == r.st = "Ok" /\ r.val.tag = "Neu"

\* The beta steps the eliminator exp performs itself, not those of its subterms
OwnBetasDotCall == Betas(res.log) - Betas(Sub(exp.exp).log) - Betas(SubArgs(exp.args).log)

OwnBetasLocalMatch == Betas(res.log) - Betas(Sub(exp.on_exp).log)

\* C4 as stated: when the receiver, the scrutinee or any argument of a
\* DotCall or LocalMatch evaluates to Neu(_), the result is neutral and no
\* beta step is performed.
C4_Original ==
    /\ (pc = "done" /\ exp.tag = "DotCall"
          /\ Sub(exp.exp).st = "Ok" /\ SubArgs(exp.args).st = "Ok"
          /\ (\/ NeuVal(Sub(exp.exp))
              \/ \E i \in 1..Len(exp.args) : NeuVal(Sub(exp.args[i]))))
         => (res.st = "Ok" /\ res.val.tag = "Neu" /\ OwnBetasDotCall = 0)
    /\ (pc = "done" /\ exp.tag = "LocalMatch" /\ NeuVal(Sub(exp.on_exp)))
         => (res.st = "Ok" /\ res.val.tag = "Neu" /\ OwnBetasLocalMatch = 0)

\* C4 amended: when the receiver of a DotCall evaluates to Neu(x) and its
\* arguments to the values a, the result is Neu(Dtor(x, n, a)); when the
\* scrutinee of a LocalMatch evaluates to Neu(x), the result is
\* Neu(Match(name, x, body)); neither performs a beta step.  x.not for a
\* free variable x is Neu(Dtor(Var x, "not", [])).
C4_NeutralHead ==
    /\ (pc = "done" /\ exp.tag = "DotCall"
          /\ NeuVal(Sub(exp.exp)) /\ SubArgs(exp.args).st = "Ok")
         => /\ res.st = "Ok"
            /\ res.val = ValNeu(NeuDtor(Sub(exp.exp).val.exp, exp.name, SubArgs(exp.args).val))
            /\ OwnBetasDotCall = 0
    /\ (pc = "done" /\ exp.tag = "LocalMatch" /\ NeuVal(Sub(exp.on_exp)))
         => /\ res.st = "Ok"
            /\ res.val = ValNeu(NeuMatch(exp.name, Sub(exp.on_exp).val.exp,
                                 [cases |-> [i \in 1..Len(exp.body.cases) |->
                                                EvalCase(exp.body.cases[i], env)]]))
            /\ OwnBetasLocalMatch = 0
    /\ (pc = "done" /\ env = <<vTrue, vX>> /\ exp = DotCall(Variable(0, "x"), "not", <<>>))
         => (res.st = "Ok" /\ res.val = ValNeu(NeuDtor(NeuVar("x", 0), "not", <<>>)))

C4_Witness ==
    /\ pc = "done" /\ exp.tag = "LocalMatch" /\ exp.on_exp = Variable(0, "x")
    /\ env = <<vTrue, vX>> /\ exp.body = NotStd
    /\ res.st = "Ok" /\ res.val.tag = "Neu" /\ res.val.exp.tag = "Match"

BetaMet(what) ==
    \E i \in 1..Len(res.log) :
        res.log[i].ev \in {"beta_match", "beta_comatch"} /\ res.log[i].tag = what

ImpossibleErr == res.st = "Err" /\ res.err.kind = "Impossible"

\* C5: when beta_match or beta_comatch is reached with a name for which the
\* body has no case, eval returns Err(Impossible).
C5_MissingCaseIsImpossible == (pc = "done" /\ BetaMet("missing")) => ImpossibleErr

\* C6: when beta_match or beta_comatch selects an absurd case (body = None),
\* eval returns Err(Impossible).
C6_AbsurdCaseIsImpossible == (pc = "done" /\ BetaMet("absurd")) => ImpossibleErr

\* C7: when the receiver of a DotCall evaluates to a value that is neither
\* Ctor, Comatch nor Neu, or the scrutinee of a LocalMatch to a value that is
\* neither Ctor nor Neu, eval returns Err(Impossible).
C7_OtherShapeIsImpossible ==
    /\ (pc = "done" /\ exp.tag = "DotCall"
          /\ Sub(exp.exp).st = "Ok" /\ SubArgs(exp.args).st = "Ok"
          /\ Sub(exp.exp).val.tag \notin {"Ctor", "Comatch", "Neu"}) => ImpossibleErr
    /\ (pc = "done" /\ exp.tag = "LocalMatch"
          /\ Sub(exp.on_exp).st = "Ok"
          /\ Sub(exp.on_exp).val.tag \notin {"Ctor", "Neu"}) => ImpossibleErr

\* C8: when eval returns, with a value or with an error, the caller's
\* environment is as deep as at entry, for the call and for every eval call
\* made on the way, and every scoped bind has released its bindings.
C8_EnvDiscipline ==
    (pc = "done" /\ Returned(res)) =>
        /\ Len(res.env) = Len(env)
        /\ \A i \in 1..Len(res.log) : res.log[i].ev = "ret" => res.log[i].k = res.log[i].n
        /\ Count(res.log, "bind") = Count(res.log, "unbind")

\* an error raised by the body of a closure, inside the scope of its bindings
C8_Witness ==
    /\ pc = "done" /\ prg = PrgBadLookup /\ exp = DotCall(cTrue, "bad", <<>>)
    /\ res.st = "Err" /\ res.err.kind = "UndefinedDeclaration"
    /\ Count(res.log, "bind") = 2 /\ Count(res.log, "apply") = 1

-----------------------------------------------------------------------------
(* Evaluation of programs and terms that passed the type checker's arity     *)
(* check (TypeError::ArgLenMismatch): every name is declared and is given as *)
(* many arguments, or binds as many parameters, as its declaration has.      *)

RECURSIVE ArityChecked(_, _)

DeclaredWith(decls, name, kinds, n) ==
    /\ name \in DOMAIN decls.map
    /\ decls.map[name].kind \in kinds
    /\ decls.map[name].params = n

CasesChecked(decls, m, kinds) ==
    \A i \in 1..Len(m.cases) :
        /\ DeclaredWith(decls, m.cases[i].name, kinds, m.cases[i].params)
        /\ m.cases[i].body # None => ArityChecked(decls, m.cases[i].body)

ArityChecked(decls, e) ==
    CASE e.tag = "Variable" -> TRUE
      [] e.tag = "TypCtor" ->
            /\ DeclaredWith(decls, e.name, {"Data", "Codata"}, Len(e.args))
            /\ \A i \in 1..Len(e.args) : ArityChecked(decls, e.args[i])
      [] e.tag = "Call" ->
            /\ DeclaredWith(decls, e.name, {e.kind}, Len(e.args))
            /\ \A i \in 1..Len(e.args) : ArityChecked(decls, e.args[i])
      [] e.tag = "DotCall" ->
            /\ DeclaredWith(decls, e.name, {"Def", "Dtor"}, Len(e.args))
            /\ ArityChecked(decls, e.exp)
            /\ \A i \in 1..Len(e.args) : ArityChecked(decls, e.args[i])
      [] e.tag = "Anno" -> ArityChecked(decls, e.exp) /\ ArityChecked(decls, e.typ)
      [] e.tag = "LocalMatch" ->
            ArityChecked(decls, e.on_exp) /\ CasesChecked(decls, e.body, {"Ctor"})
      [] e.tag = "LocalComatch" -> CasesChecked(decls, e.body, {"Dtor"})
      [] OTHER -> TRUE

PrgChecked(p) ==
    \A n \in DOMAIN p.decls.map :
        LET d == p.decls.map[n]
        IN /\ d.kind = "Def" => CasesChecked(p.decls, d.body, {"Ctor"})
           /\ d.kind = "Codef" => CasesChecked(p.decls, d.body, {"Dtor"})

InitChecked ==
    /\ pc = "eval"
    /\ prg \in {p \in Prgs : PrgChecked(p)}
    /\ exp \in {e \in Exps : ArityChecked(prg.decls, e)}
    /\ env \in Envs
    /\ res = NoRes
    /\ XfuncIdle /\ LookupIdle /\ RunnerIdle

SpecChecked == (InitChecked \/ InitXfunc \/ InitLookup \/ InitRunner) /\ [][Next]_vars

Subterms(e) ==
    CASE e.tag = "DotCall" -> <<e.exp>> \o e.args
      [] e.tag = "LocalMatch" -> <<e.on_exp>>
      [] e.tag \in {"TypCtor", "Call"} -> e.args
      [] e.tag = "Anno" -> <<e.exp>>
      [] OTHER -> <<>>

SubLogs(e, k) == Concat([i \in 1..k |-> Sub(Subterms(e)[i]).log])

\* the first subterm whose evaluation does not return a value, 0 when all do
FirstFailure(e) ==
    LET bad == {i \in 1..Len(Subterms(e)) : Sub(Subterms(e)[i]).st # "Ok"}
    IN IF bad = {} THEN 0 ELSE Min(bad)

\* C17: the subterms of a DotCall, LocalMatch, Call, TypCtor or Anno are
\* evaluated in order, receiver or scrutinee first and arguments from left to
\* right.  When the first subterm that fails returns an error, eval returns
\* that error, and what has been evaluated is the subterms up to it and
\* nothing after it; when all subterms return values they have all been
\* evaluated, in that order, before anything else.
C17_OrderAndPropagation ==
    (pc = "done" /\ Subterms(exp) # <<>>) =>
        LET k == FirstFailure(exp)
            enter == Event("enter", exp.tag, NameOf(exp), Len(env), 0)
            ret == Event("ret", exp.tag, NameOf(exp), Len(env), Len(env))
        IN /\ (k > 0 /\ Sub(Subterms(exp)[k]).st = "Err") =>
                 /\ res.st = "Err"
                 /\ res.err = Sub(Subterms(exp)[k]).err
                 /\ res.log = <<enter>> \o SubLogs(exp, k) \o <<ret>>
           /\ k = 0 =>
                 LET all == <<enter>> \o SubLogs(exp, Len(Subterms(exp)))
                 IN /\ Len(res.log) >= Len(all)
                    /\ SubSeq(res.log, 1, Len(all)) = all

C17_Witness ==
    /\ pc = "done"
    /\ exp = DotCall(DotCall(cTrue, "nope", <<>>), "not",
                     <<DotCall(Call("Ghost", "Ctor", <<>>), "not", <<>>)>>)
    /\ res.st = "Err" /\ res.err = UndefinedDeclaration("nope")
    /\ Count(res.log, "enter") = 3

Reverse(m) == Match([i \in 1..Len(m.cases) |-> m.cases[Len(m.cases) + 1 - i]])

\* The cases of a match without those that repeat the name of an earlier case
FirstOfEachName(m) ==
    LET keep == {i \in 1..Len(m.cases) : \A j \in 1..(i - 1) : m.cases[j].name # m.cases[i].name}
        at(k) == CHOOSE i \in keep : Cardinality({j \in keep : j <= i}) = k
    IN Match([k \in 1..Cardinality(keep) |-> m.cases[at(k)]])

DistinctNames(m) == FirstOfEachName(m) = m

\* The table with the cases of every def and codef body in the opposite order
ReversedBodies(p) ==
    [decls |-> [p.decls EXCEPT !.map =
                   [n \in DOMAIN p.decls.map |->
                       IF p.decls.map[n].body = None THEN p.decls.map[n]
                       ELSE [p.decls.map[n] EXCEPT !.body = Reverse(p.decls.map[n].body)]]]]

\* The table with the repeated cases of every def and codef body removed
FirstBodies(p) ==
    [decls |-> [p.decls EXCEPT !.map =
                   [n \in DOMAIN p.decls.map |->
                       IF p.decls.map[n].body = None THEN p.decls.map[n]
                       ELSE [p.decls.map[n] EXCEPT !.body = FirstOfEachName(p.decls.map[n].body)]]]]

Reduces ==
    /\ pc = "done"
    /\ \/ exp.tag = "DotCall" /\ Sub(exp.exp).st = "Ok" /\ Sub(exp.exp).val.tag \in {"Ctor", "Comatch"}
       \/ exp.tag = "LocalMatch" /\ Sub(exp.on_exp).st = "Ok" /\ Sub(exp.on_exp).val.tag = "Ctor"

\* C20: the case beta_match and beta_comatch select is the first case whose
\* name is the xtor name.  A DotCall or LocalMatch that reduces returns the
\* same result when the cases of the def and codef bodies, or of the local
\* match, are given in the opposite order, as long as no two cases have the
\* same name; it returns the same result when every case that repeats the
\* name of an earlier case is removed.
C20_SelectByName ==
    Reduces =>
        /\ Outcome(res) = Outcome(Eval(exp, FirstBodies(prg), env, <<>>, Fuel))
        /\ (\A n \in DOMAIN prg.decls.map :
               prg.decls.map[n].body # None => DistinctNames(prg.decls.map[n].body))
              => Outcome(res) = Outcome(Eval(exp, ReversedBodies(prg), env, <<>>, Fuel))
        /\ exp.tag = "LocalMatch" =>
              /\ Outcome(res) = Outcome(Eval(LocalMatch(exp.name, exp.on_exp, FirstOfEachName(exp.body)),
                                             prg, env, <<>>, Fuel))
              /\ DistinctNames(exp.body) =>
                    Outcome(res) = Outcome(Eval(LocalMatch(exp.name, exp.on_exp, Reverse(exp.body)),
                                                prg, env, <<>>, Fuel))

C20_Witness ==
    /\ pc = "done" /\ exp = TrueDotNot
    /\ prg.decls.map["not"].body = NotDuplicate
    /\ res.st = "Ok" /\ res.val = vFalse
    /\ \E i \in 1..Len(res.log) : res.log[i].ev = "beta_match" /\ res.log[i].name = "True"

\* What the body b of a closure returns when it is evaluated in the
\* environment captured followed by the values args
Sees(b, captured, args) == Outcome(Eval(b, prg, captured \o args, <<>>, Fuel))

\* e is a local comatch with a cocase named n that has a body
ComatchWith(e, n) ==
    e.tag = "LocalComatch" /\ HasCase(e.body, n) /\ CaseNamed(e.body, n).body # None

\* exp applies, after the case has returned and its bindings are popped, a
\* comatch built under the bindings of a case of a local match
AppliedAfterPop ==
    /\ exp.tag = "DotCall" /\ exp.exp.tag = "LocalMatch"
    /\ Sub(exp.exp.on_exp).st = "Ok" /\ Sub(exp.exp.on_exp).val.tag = "Ctor"
    /\ HasCase(exp.exp.body, Sub(exp.exp.on_exp).val.name)
    /\ CaseNamed(exp.exp.body, Sub(exp.exp.on_exp).val.name).body # None
    /\ ComatchWith(CaseNamed(exp.exp.body, Sub(exp.exp.on_exp).val.name).body, exp.name)
    /\ SubArgs(exp.args).st = "Ok"

\* exp builds a comatch, binds it as the argument of a constructor and
\* applies it under that binding
AppliedAfterPush ==
    /\ exp.tag = "LocalMatch" /\ exp.on_exp.tag = "Call" /\ exp.on_exp.kind = "Ctor"
    /\ Len(exp.on_exp.args) = 1 /\ exp.on_exp.args[1].tag = "LocalComatch"
    /\ Sub(exp.on_exp).st = "Ok" /\ Sub(exp.on_exp).val.tag = "Ctor"
    /\ HasCase(exp.body, exp.on_exp.name)
    /\ CaseNamed(exp.body, exp.on_exp.name).body # None
    /\ LET call0 == CaseNamed(exp.body, exp.on_exp.name).body
       IN /\ call0.tag = "DotCall" /\ call0.exp = Variable(0, "n")
          /\ ComatchWith(exp.on_exp.args[1], call0.name)
          /\ EvalArgs(call0.args, prg, env \o Sub(exp.on_exp).val.args, <<>>, Fuel).st = "Ok"

\* C21: the closure of a case holds the environment in which the case was
\* evaluated.  What its body returns when the closure is applied is what the
\* body returns in that environment followed by the args, whether the
\* closure is applied at once, after bindings made since have been popped
\* from the caller's environment, or under a binding pushed since; and the
\* caller's environment is after the application what it was before.
C21_CapturedEnv ==
    pc = "done" =>
        /\ exp.tag = "LocalComatch" =>
              /\ res.st = "Ok" /\ res.env = env
              /\ \A i \in 1..Len(exp.body.cases) :
                    exp.body.cases[i].body # None =>
                        res.val.body.cases[i].body
                            = Closure(exp.body.cases[i].body, exp.body.cases[i].params, env)
        /\ (exp.tag = "DotCall" /\ ComatchWith(exp.exp, exp.name) /\ SubArgs(exp.args).st = "Ok") =>
              /\ Outcome(res) = Sees(CaseNamed(exp.exp.body, exp.name).body, env, SubArgs(exp.args).val)
              /\ Returned(res) => res.env = env
        /\ AppliedAfterPop =>
              LET on_exp == Sub(exp.exp.on_exp).val
                  comatch == CaseNamed(exp.exp.body, on_exp.name).body
              IN /\ Outcome(res) = Sees(CaseNamed(comatch.body, exp.name).body,
                                        env \o on_exp.args, SubArgs(exp.args).val)
                 /\ Returned(res) => res.env = env
        /\ AppliedAfterPush =>
              LET call0 == CaseNamed(exp.body, exp.on_exp.name).body
                  args == EvalArgs(call0.args, prg, env \o Sub(exp.on_exp).val.args, <<>>, Fuel)
              IN /\ Outcome(res) = Sees(CaseNamed(exp.on_exp.args[1].body, call0.name).body,
                                        env, args.val)
                 /\ Returned(res) => res.env = env

\* S(Z).match m { S(n) => comatch k { ap(a) => n } }.ap(True) in an environment
\* of two values: the body sees n, bound when the comatch was built
C21_Witness ==
    /\ pc = "done" /\ env = <<vTrue, vX>>
    /\ exp = DotCall(LocalMatch("m", cS(cZ),
                                Match(<<Case("S", 1, LocalComatch("k", FALSE,
                                            Match(<<Case("ap", 1, Variable(1, "n"))>>)))>>)),
                     "ap", <<cTrue>>)
    /\ AppliedAfterPop
    /\ res.st = "Ok" /\ res.val = vZ /\ res.env = env

\* C22: eval of Anno(e, t) returns what eval of e returns in the same
\* environment, the same value or the same error, and leaves the environment
\* as eval of e leaves it; the only eval calls made are those of e, so t is
\* not evaluated and a t whose evaluation fails does not make the term fail.
C22_AnnoErased ==
    (pc = "done" /\ exp.tag = "Anno") =>
        /\ Outcome(res) = Outcome(Sub(exp.exp))
        /\ res.env = Sub(exp.exp).env
        /\ Count(res.log, "enter") = 1 + Count(Sub(exp.exp).log, "enter")
        /\ Returned(res) =>
              res.log = <<Event("enter", "Anno", "", Len(env), 0)>> \o Sub(exp.exp).log
                          \o <<Event("ret", "Anno", "", Len(env), Len(res.env))>>
        /\ Sub(exp.typ).st # "Ok" => res.st = Sub(exp.exp).st

\* True annotated with True.nope, a type whose evaluation returns an error
C22_Witness ==
    /\ pc = "done" /\ exp = Anno(cTrue, DotCall(cTrue, "nope", <<>>))
    /\ Sub(exp.typ).st = "Err"
    /\ res.st = "Ok" /\ res.val = vTrue

-----------------------------------------------------------------------------
(* Properties of xfunc *)

Overlap(s1, s2) == s1 = s2 \/ (s1.start < s2.end /\ s2.start < s1.end)

XExps ==
    LET A == Call("A", "Ctor", <<>>)
        B(x) == Call("B", "Ctor", <<x>>)
        C == Call("C", "Ctor", <<>>)
        f == Call("f", "Codef", <<>>)
        g(y) == Call("g", "Codef", <<y>>)
    IN {DotCall(A, "f", <<>>), DotCall(B(A), "f", <<>>), DotCall(A, "g", <<C>>),
        DotCall(B(A), "g", <<C>>), DotCall(B(B(A)), "g", <<A>>), DotCall(C, "h", <<>>),
        DotCall(f, "A", <<>>), DotCall(f, "B", <<C>>), DotCall(g(C), "A", <<>>),
        DotCall(g(C), "B", <<f>>), DotCall(g(C), "B", <<g(f)>>)}

Alpha(case) ==
    Case(case.name, case.params,
         IF case.body = None THEN None ELSE Rewrite(case.body, [op |-> "rename"], case.params))

\* The row of the type in the matrix of m, without the span and the order
RowOf(m) ==
    LET row == as_matrix(m).map[type_name]
    IN [repr |-> row.repr, xtors |-> Range(row.xtors), xdefs |-> Range(row.xdefs),
        xtor_params |-> row.xtor_params, xdef_params |-> row.xdef_params,
        cell |-> [c \in DOMAIN row.cell |-> Alpha(row.cell[c])]]

RoundTripped == round > 0 /\ round % 2 = 0

Located(m, name) ==
    /\ name \in DOMAIN as_matrix(m).map
    /\ as_matrix(m).map[name].span # None

Dirty ==
    SelectSeq(modified, LAMBDA n : n \notin Range(xdefs_for_type(module, type_name))
                                          \cup Range(xtors_for_type(module, type_name)))

\* C13: the edits of a successful xfunc are: one edit at the span of the type
\* declaration whose text is the new type declaration followed by its
\* (co)definitions; one edit per dirty declaration that is neither an xdef nor
\* an xtor of the type, at the span of that declaration, with that
\* declaration as text; one edit with empty text per original xdef, at the
\* span of that xdef; and nothing else.
C13_EditList ==
    (pc = "xdone" /\ xres.st = "Ok") =>
        LET xdefs == xdefs_for_type(module, type_name)
            t == lookup_decl(module, type_name)
        IN /\ Len(xres.edits) = 1 + Len(Dirty) + Len(xdefs)
           /\ xres.edits[1].span = t.span
           /\ Len(xres.edits[1].text) = 1 + Len(t.xtors)
           /\ xres.edits[1].text[1].name = type_name
           /\ xres.edits[1].text[1].kind \in {"Data", "Codata"}
           /\ \A i \in 1..Len(t.xtors) :
                 /\ xres.edits[1].text[1 + i].name = t.xtors[i].name
                 /\ xres.edits[1].text[1 + i].kind \in {"Def", "Codef"}
                 /\ xres.edits[1].text[1 + i].typ = type_name
           /\ \A i \in 1..Len(Dirty) :
                 /\ xres.edits[1 + i].span = lookup_decl(module, Dirty[i]).span
                 /\ Len(xres.edits[1 + i].text) = 1
                 /\ xres.edits[1 + i].text[1].name = Dirty[i]
                 /\ xres.edits[1 + i].text[1].kind = lookup_decl(module, Dirty[i]).kind
           /\ \A i \in 1..Len(xdefs) :
                 xres.edits[1 + Len(Dirty) + i] = Edit(lookup_decl(module, xdefs[i]).span, <<>>)

C13_Witness ==
    /\ pc = "xdone" /\ xres.st = "Ok" /\ round = 0 /\ type_name = "T"
    /\ modified = <<"f", "h">>
    /\ Len(xres.edits) = 4
    /\ xres.edits[2].span = lookup_decl(module, "h").span
    /\ xres.edits[3] = Edit(lookup_decl(module, "f").span, <<>>)

\* C14: a successful xfunc on a data type is titled "Refunctionalize T" and
\* its new declarations are one codata declaration T followed by one codef
\* per former constructor; on a codata type it is titled "Defunctionalize T"
\* and its new declarations are one data declaration T followed by one def
\* per former destructor.
C14_Direction ==
    (pc = "xdone" /\ xres.st = "Ok") =>
        LET t == lookup_decl(module, type_name)
            text == xres.edits[1].text
            into == IF t.kind = "Data" THEN <<"Refunctionalize", "Codata", "Codef">>
                    ELSE <<"Defunctionalize", "Data", "Def">>
        IN /\ xres.title = <<into[1], type_name>>
           /\ Len(text) = 1 + Len(t.xtors)
           /\ text[1].kind = into[2] /\ text[1].name = type_name
           /\ \A i \in 2..Len(text) : text[i].kind = into[3] /\ text[i].name = t.xtors[i - 1].name

C14_Witness ==
    /\ pc = "xdone" /\ xres.st = "Ok" /\ type_name = "T"
    /\ lookup_decl(module, "T").kind = "Codata"
    /\ xres.title = <<"Defunctionalize", "T">>
    /\ Len(xres.edits[1].text) = 3
    /\ xres.edits[1].text[2].kind = "Def"

-----------------------------------------------------------------------------
(* Properties of the declaration table *)

\* C15: type_decl_for_member(name) is typ of the type the xtor index gives
\* for name; when the xtor index has no entry, typ of the type the xdef index
\* gives; when neither has one, the error MissingTypeDeclaration(name).  A
\* name in both indices is resolved by the xtor index.  A declaration it
\* returns is a data or codata declaration of the name the entry gives.
C15_MemberResolution ==
    (pc = "found" /\ call.acc = "type_decl_for_member") =>
        LET xt == prg.decls.xtor_to_type
            xd == prg.decls.xdef_to_type
            n == call.name
        IN /\ n \in DOMAIN xt => lres = typ(prg.decls, xt[n].name)
           /\ (n \notin DOMAIN xt /\ n \in DOMAIN xd) => lres = typ(prg.decls, xd[n].name)
           /\ (n \notin DOMAIN xt /\ n \notin DOMAIN xd) => lres = LErr(MissingTypeDeclaration(n))
           /\ lres.st = "Ok" =>
                 /\ lres.val.kind \in {"Data", "Codata"}
                 /\ lres.val = prg.decls.map[IF n \in DOMAIN xt THEN xt[n].name ELSE xd[n].name]

C15_Witness ==
    /\ pc = "found" /\ call = [acc |-> "type_decl_for_member", name |-> "True"]
    /\ "True" \in DOMAIN prg.decls.xtor_to_type /\ "True" \in DOMAIN prg.decls.xdef_to_type
    /\ lres.st = "Ok" /\ lres.val.name = "Bool"

Expected(acc) ==
    CASE acc = "typ" -> <<"Data", "Codata">>
      [] acc = "data" -> <<"Data">>
      [] acc = "codata" -> <<"Codata">>
      [] acc = "def" -> <<"Def">>
      [] acc = "codef" -> <<"Codef">>
      [] acc = "ctor" -> <<"Ctor">>
      [] acc = "dtor" -> <<"Dtor">>
      [] acc = "ctor_or_codef" -> <<"Ctor", "Codef">>
      [] acc = "dtor_or_def" -> <<"Dtor", "Def">>

\* C16: for each of typ, data, codata, def, codef, ctor, dtor, ctor_or_codef
\* and dtor_or_def: a name that is not in the table yields
\* UndefinedDeclaration(name); a name declared with a kind outside the
\* expected set yields InvalidDeclarationKind with the expected set and the
\* actual kind; a name declared with a kind of the expected set yields that
\* declaration (ctor_or_codef yields a codef, and dtor_or_def a def, seen as
\* the xtor of that name and those parameters).  data("not") with not a def
\* is InvalidDeclarationKind { expected: {Data}, actual: Def }.
C16_KindChecked ==
    (pc = "found" /\ call.acc \in Accessors \ {"decl", "type_decl_for_member"}) =>
        LET n == call.name
            map == prg.decls.map
            expected == Expected(call.acc)
        IN /\ n \notin DOMAIN map => lres = LErr(UndefinedDeclaration(n))
           /\ (n \in DOMAIN map /\ map[n].kind \notin Range(expected)) =>
                 lres = LErr(InvalidDeclarationKind(n, expected, map[n].kind))
           /\ (n \in DOMAIN map /\ map[n].kind \in Range(expected)) =>
                 /\ lres.st = "Ok"
                 /\ lres.val.name = n /\ lres.val.params = map[n].params
                 /\ lres.val.kind \in Range(expected)
                 /\ call.acc \notin {"ctor_or_codef", "dtor_or_def"} => lres.val = map[n]
                 /\ call.acc = "ctor_or_codef" => lres.val.kind = "Ctor"
                 /\ call.acc = "dtor_or_def" => lres.val.kind = "Dtor"
           /\ (call.acc = "data" /\ n = "not") =>
                 lres = LErr(InvalidDeclarationKind("not", <<"Data">>, "Def"))

C16_Witness ==
    /\ pc = "found" /\ call = [acc |-> "data", name |-> "not"]
    /\ lres.st = "Err" /\ lres.err.kind = "InvalidDeclarationKind"
    /\ lres.err.expected = <<"Data">> /\ lres.err.actual = "Def"

-----------------------------------------------------------------------------
(* Properties of the test runner *)

\* C19: the run command exits with code 1 exactly when some case of the run
\* failed, and otherwise returns with code 0, with and without
\* --update-expected; the run uses the filter "*" when --filter is not given
\* and the given filter otherwise.
C19_ExitCode ==
    pc = "exited" =>
        /\ tres.exit \in {0, 1}
        /\ tres.exit = 1 <=> tres.res.failed # {}
        /\ tres.res.failed \subseteq tres.res.cases
        /\ tres.res.cases = Selected_cases(tres.config.filter)
        /\ cmd.filter = <<>> => tres.config.filter = "*"
        /\ cmd.filter # <<>> => tres.config.filter = cmd.filter[1]

C19_Witness ==
    /\ pc = "exited" /\ cmd.update_expected /\ cmd.filter = <<>>
    /\ tres.config.filter = "*" /\ tres.res.failed = {"b1"} /\ tres.exit = 1
    /\ tres.out = "update_expected"

====
